---- MODULE Spec2Model ----
(***************************************************************************)
(* A model of todo-cli (src/src/main.rs): the Task record, the TodoList    *)
(* store with its identifier counter, the JSON persistence of the store,   *)
(* and the steps of one command-line invocation (main).                    *)
(*                                                                         *)
(* Five specifications share the variables:                                *)
(*   SpecStore      a fresh TodoList driven by arbitrary sequences of its  *)
(*                  methods;                                               *)
(*   SpecRoundTrip  save followed by load, from an arbitrary store;        *)
(*   SpecCli        sequential invocations of main sharing tasks.json;     *)
(*   SpecCliFair    SpecCli, where a started process keeps running;        *)
(*   SpecConc       two processes running main against the same file.      *)
(* Text (descriptions, file contents) is a sequence of one-character       *)
(* strings, so that JSON encoding and parsing are computed, not assumed.   *)
(* Not modelled: terminal output and colours, usize overflow of next_id    *)
(* (add_task is bounded by MaxAdds), read errors other than a parse error. *)
(***************************************************************************)
EXTENDS Integers, Sequences, FiniteSets, TLC

VARIABLES
    store,      \* SpecStore / SpecRoundTrip: the TodoList under test
    call,       \* SpecStore: the last method call, its arguments and result
    assigned,   \* history: ids returned by add_task, in call order
    shown,      \* SpecStore: tasks displayed by the last call (list_* only)
    reloaded,   \* SpecRoundTrip: the result of load() after save()
    file,       \* tasks.json: [exists, contents]
    pc,         \* per process: position in main
    cmd,        \* per process: cli.command
    todo_list,  \* per process: main's local todo_list
    result,     \* per process: value returned by the store method main called
    exit_code,  \* per process: 0 = Ok(()), 1 = main returned Err
    io,         \* per process: number of load(), store method and save()
                \* calls made, and whether save() returned an error
    reported,   \* history: ids printed by "Task #id added" in any invocation
    loaded,     \* per process: what TodoList::load() returned
    disk,       \* history: what was last written to tasks.json, and by whom
    race        \* history: processes that were between load and save together

vars == <<store, call, assigned, shown, reloaded, file, pc, cmd, todo_list,
          result, exit_code, io, reported, loaded, disk, race>>

storeVars == <<store, call, assigned, shown>>
cliVars == <<pc, cmd, todo_list, result, exit_code, io, reported, loaded,
            disk, race>>

----------------------------------------------------------------------------
(* Bounds *)

\* add_task is not called once next_id exceeds MaxAdds
MaxAdds == 3
\* longest task sequence drawn for SpecRoundTrip
RT_MaxLen == 2
\* SpecConc: add is not run once the loaded next_id exceeds ConcMaxAdds
ConcMaxAdds == 2

\* descriptions the caller may pass (any text, including the empty string)
Descriptions == { <<>>, <<"a">>, <<"\"", "\\">> }
\* descriptions drawn for the round trip: quote, backslash, newline, letters
RT_Descriptions == { <<>>, <<"a", "\"">>, <<"\\", "n">>, <<"\n", "b">> }
\* ids and counters drawn for the round trip (one digit and several digits)
RT_Ids == { 0, 7, 10 }
RT_NextIds == { 1, 120 }
\* ids the caller may pass: every id that can exist, and some that cannot
Ids == 0 .. MaxAdds + 1
\* descriptions and ids given on the command line
CliDescriptions == { <<"a">>, <<"\"", "\\">> }
CliIds == 1 .. MaxAdds + 1

----------------------------------------------------------------------------
(* Task *)

Task_new(id, description) ==
    [id |-> id, description |-> description, status |-> "Todo"]

Task_mark_done_toggle(t) ==
    [t EXCEPT !.status = IF @ = "Done" THEN "Todo" ELSE "Done"]

Task_mark_done(t) == [t EXCEPT !.status = "Done"]

Task_mark_todo(t) == [t EXCEPT !.status = "Todo"]

----------------------------------------------------------------------------
(* TodoList *)

TodoList_new == [tasks |-> <<>>, next_id |-> 1]

\* iter().position(|t| t.id == id): index of the first match, 0 for None
RECURSIVE PositionFrom(_, _, _)
PositionFrom(tasks, id, i) ==
    IF i > Len(tasks) THEN 0
    ELSE IF tasks[i].id = id THEN i
    ELSE PositionFrom(tasks, id, i + 1)

position(tasks, id) == PositionFrom(tasks, id, 1)

Vec_swap_remove(tasks, pos) ==
    [i \in 1 .. Len(tasks) - 1 |-> IF i = pos THEN tasks[Len(tasks)] ELSE tasks[i]]

\* Vec::remove(pos): the elements after pos shift left by one
Vec_remove(tasks, pos) ==
    [i \in 1 .. Len(tasks) - 1 |-> IF i < pos THEN tasks[i] ELSE tasks[i + 1]]

\* Vec::retain / iter().filter(): keeps the matching elements in order
RECURSIVE Filter(_, _)
Filter(tasks, status) ==
    IF tasks = <<>> THEN <<>>
    ELSE IF Head(tasks).status = status
         THEN <<Head(tasks)>> \o Filter(Tail(tasks), status)
         ELSE Filter(Tail(tasks), status)

MaxIdOf(tasks) ==
    IF tasks = <<>> THEN 0
    ELSE CHOOSE m \in {tasks[i].id : i \in DOMAIN tasks} :
            \A i \in DOMAIN tasks : tasks[i].id <= m

add_task_no_increment(self, description) ==
    [self |-> [tasks |-> Append(self.tasks, Task_new(self.next_id, description)),
               next_id |-> self.next_id],
     ret |-> self.next_id]

add_task_from_max(self, description) ==
    LET id == MaxIdOf(self.tasks) + 1
    IN [self |-> [tasks |-> Append(self.tasks, Task_new(id, description)),
                  next_id |-> id + 1],
        ret |-> id]

add_task_front(self, description) ==
    [self |-> [tasks |-> <<Task_new(self.next_id, description)>> \o self.tasks,
               next_id |-> self.next_id + 1],
     ret |-> self.next_id]

add_task(self, description) ==
    LET id == self.next_id
        task == Task_new(id, description)
    IN [self |-> [tasks |-> Append(self.tasks, task),
                  next_id |-> self.next_id + 1],
        ret |-> id]

mark_done_reports_change(self, id) ==
    LET pos == position(self.tasks, id)
    IN IF pos # 0 /\ self.tasks[pos].status = "Todo"
       THEN [self |-> [self EXCEPT !.tasks[pos] = Task_mark_done(@)], ret |-> TRUE]
       ELSE [self |-> self, ret |-> FALSE]

mark_done(self, id) ==
    LET pos == position(self.tasks, id)
    IN IF pos # 0
       THEN [self |-> [self EXCEPT !.tasks[pos] = Task_mark_done(@)], ret |-> TRUE]
       ELSE [self |-> self, ret |-> FALSE]

mark_todo_all(self, id) ==
    IF position(self.tasks, id) # 0
    THEN [self |-> [self EXCEPT !.tasks =
                       [i \in DOMAIN self.tasks |-> Task_mark_todo(self.tasks[i])]],
          ret |-> TRUE]
    ELSE [self |-> self, ret |-> FALSE]

mark_todo(self, id) ==
    LET pos == position(self.tasks, id)
    IN IF pos # 0
       THEN [self |-> [self EXCEPT !.tasks[pos] = Task_mark_todo(@)], ret |-> TRUE]
       ELSE [self |-> self, ret |-> FALSE]

remove_task(self, id) ==
    LET pos == position(self.tasks, id)
    IN IF pos # 0
       THEN [self |-> [self EXCEPT !.tasks = Vec_remove(@, pos)], ret |-> TRUE]
       ELSE [self |-> self, ret |-> FALSE]

clear_done_keeps_first(self) ==
    LET kept == IF self.tasks = <<>> THEN <<>>
                ELSE <<Head(self.tasks)>> \o Filter(Tail(self.tasks), "Todo")
    IN [self |-> [self EXCEPT !.tasks = kept],
        ret |-> Len(self.tasks) - Len(kept)]

clear_done(self) ==
    LET initial_count == Len(self.tasks)
        kept == Filter(self.tasks, "Todo")
    IN [self |-> [self EXCEPT !.tasks = kept],
        ret |-> initial_count - Len(kept)]

list_all(self) == self.tasks

list_todo(self) == Filter(self.tasks, "Todo")

list_done_wrong_status(self) == Filter(self.tasks, "Todo")

list_done(self) == Filter(self.tasks, "Done")

----------------------------------------------------------------------------
(* Persistence: serde_json::to_string_pretty and serde_json::from_str for  *)
(* the derived Serialize / Deserialize of TodoList, Task and TaskStatus.   *)
(* A text is a sequence of one-character strings.                          *)

K_tasks == <<"t", "a", "s", "k", "s">>
K_next_id == <<"n", "e", "x", "t", "_", "i", "d">>
K_id == <<"i", "d">>
K_description == <<"d", "e", "s", "c", "r", "i", "p", "t", "i", "o", "n">>
K_status == <<"s", "t", "a", "t", "u", "s">>
V_Todo == <<"T", "o", "d", "o">>
V_Done == <<"D", "o", "n", "e">>

DQ == "\""
BS == "\\"

Digits == <<"0", "1", "2", "3", "4", "5", "6", "7", "8", "9">>

\* usize formatted in decimal, no sign, no leading zero
RECURSIVE itoa(_)
itoa(n) ==
    IF n < 10 THEN <<Digits[n + 1]>>
    ELSE itoa(n \div 10) \o <<Digits[(n % 10) + 1]>>

\* the escapes serde_json writes inside a string (of the characters used
\* here: quote, backslash, newline, tab, carriage return)
EscapeChar(c) ==
    IF c = DQ THEN <<BS, DQ>>
    ELSE IF c = BS THEN <<BS, BS>>
    ELSE IF c = "\n" THEN <<BS, "n">>
    ELSE IF c = "\t" THEN <<BS, "t">>
    ELSE IF c = "\r" THEN <<BS, "r">>
    ELSE <<c>>

RECURSIVE Escape(_)
Escape(text) ==
    IF text = <<>> THEN <<>>
    ELSE EscapeChar(Head(text)) \o Escape(Tail(text))

format_escaped_str_raw(text) == <<DQ>> \o text \o <<DQ>>

format_escaped_str(text) == <<DQ>> \o Escape(text) \o <<DQ>>

\* PrettyFormatter: two spaces per nesting level
Indent(n) == [i \in 1 .. 2 * n |-> " "]

Key(k) == <<DQ>> \o k \o <<DQ, ":", " ">>

serialize_status(status) ==
    format_escaped_str(IF status = "Todo" THEN V_Todo ELSE V_Done)

serialize_task(t) ==
    Indent(2) \o <<"{", "\n">>
    \o Indent(3) \o Key(K_id) \o itoa(t.id) \o <<",", "\n">>
    \o Indent(3) \o Key(K_description) \o format_escaped_str(t.description)
                 \o <<",", "\n">>
    \o Indent(3) \o Key(K_status) \o serialize_status(t.status) \o <<"\n">>
    \o Indent(2) \o <<"}">>

RECURSIVE serialize_elems(_)
serialize_elems(tasks) ==
    IF Len(tasks) = 1 THEN serialize_task(tasks[1])
    ELSE serialize_task(Head(tasks)) \o <<",", "\n">>
         \o serialize_elems(Tail(tasks))

serialize_tasks(tasks) ==
    IF tasks = <<>> THEN <<"[", "]">>
    ELSE <<"[", "\n">> \o serialize_elems(tasks) \o <<"\n">>
         \o Indent(1) \o <<"]">>

to_string_pretty(self) ==
    <<"{", "\n">>
    \o Indent(1) \o Key(K_tasks) \o serialize_tasks(self.tasks) \o <<",", "\n">>
    \o Indent(1) \o Key(K_next_id) \o itoa(self.next_id) \o <<"\n">>
    \o <<"}">>

(* Parsing.  A position is an index into the text; position 0 is failure   *)
(* and propagates.  A parse result is [pos, val]: pos is the index after   *)
(* the value, 0 when the text is not a value of the expected type.         *)

Fail == [pos |-> 0]

\* the value of an expression, computed once and then named by a bound
\* variable: Only({body : x \in {e}}) is body with x standing for e
Only(S) == CHOOSE x \in S : TRUE

IsWs(c) == c \in {" ", "\n", "\t", "\r"}

RECURSIVE SkipWs(_, _)
SkipWs(s, i) ==
    IF i <= Len(s) /\ IsWs(s[i]) THEN SkipWs(s, i + 1) ELSE i

\* skips whitespace, then matches the literal
Expect(s, i, literal) ==
    Only({ IF i0 = 0 THEN 0
           ELSE Only({ IF j + Len(literal) - 1 <= Len(s)
                          /\ SubSeq(s, j, j + Len(literal) - 1) = literal
                       THEN j + Len(literal) ELSE 0
                       : j \in {SkipWs(s, i0)} })
           : i0 \in {i} })

\* the text after an opening quote, up to the closing quote, unescaped;
\* a raw control character or an unknown escape is an error
RECURSIVE ReadStr(_, _, _)
ReadStr(s, i, acc) ==
    IF i > Len(s) THEN Fail
    ELSE IF s[i] = DQ THEN [pos |-> i + 1, val |-> acc]
    ELSE IF s[i] = BS THEN
        IF i + 1 > Len(s) THEN Fail
        ELSE IF s[i + 1] \in {DQ, BS, "/"} THEN ReadStr(s, i + 2, Append(acc, s[i + 1]))
        ELSE IF s[i + 1] = "n" THEN ReadStr(s, i + 2, Append(acc, "\n"))
        ELSE IF s[i + 1] = "t" THEN ReadStr(s, i + 2, Append(acc, "\t"))
        ELSE IF s[i + 1] = "r" THEN ReadStr(s, i + 2, Append(acc, "\r"))
        ELSE Fail
    ELSE IF s[i] \in {"\n", "\t", "\r"} THEN Fail
    ELSE ReadStr(s, i + 1, Append(acc, s[i]))

parse_str(s, i) ==
    Only({ IF p = 0 THEN Fail ELSE ReadStr(s, p, <<>>)
           : p \in {Expect(s, i, <<DQ>>)} })

DigitValue(c) == CHOOSE d \in 0 .. 9 : Digits[d + 1] = c

IsDigit(c) == \E d \in 0 .. 9 : Digits[d + 1] = c

RECURSIVE ReadDigits(_, _, _)
ReadDigits(s, i, acc) ==
    IF i <= Len(s) /\ IsDigit(s[i])
    THEN ReadDigits(s, i + 1, 10 * acc + DigitValue(s[i]))
    ELSE [pos |-> i, val |-> acc]

\* an unsigned integer: at least one digit, no leading zero, no fraction
parse_usize(s, i) ==
    Only({ IF i0 = 0 THEN Fail
           ELSE Only({ IF j > Len(s) \/ ~IsDigit(s[j]) THEN Fail
                       ELSE IF s[j] = "0" /\ j + 1 <= Len(s) /\ IsDigit(s[j + 1])
                       THEN Fail
                       ELSE Only({ IF r.pos <= Len(s) /\ s[r.pos] \in {".", "e", "E"}
                                   THEN Fail ELSE r
                                   : r \in {ReadDigits(s, j, 0)} })
                       : j \in {SkipWs(s, i0)} })
           : i0 \in {i} })

\* TaskStatus: a unit variant is the string of its name
parse_status(s, i) ==
    Only({ IF r.pos = 0 THEN Fail
           ELSE IF r.val = V_Todo THEN [pos |-> r.pos, val |-> "Todo"]
           ELSE IF r.val = V_Done THEN [pos |-> r.pos, val |-> "Done"]
           ELSE Fail
           : r \in {parse_str(s, i)} })

ExpectKey(s, i, k) == Expect(s, Expect(s, i, format_escaped_str(k)), <<":">>)

\* the three fields of a Task, in the order save writes them
parse_task_status(s, id, description) ==
    Only({ IF status.pos = 0 THEN Fail
           ELSE Only({ IF end = 0 THEN Fail
                       ELSE [pos |-> end,
                             val |-> [id |-> id.val,
                                      description |-> description.val,
                                      status |-> status.val]]
                       : end \in {Expect(s, status.pos, <<"}">>)} })
           : status \in {parse_status(s,
                 ExpectKey(s, Expect(s, description.pos, <<",">>), K_status))} })

parse_task_description(s, id) ==
    Only({ IF description.pos = 0 THEN Fail
           ELSE parse_task_status(s, id, description)
           : description \in {parse_str(s,
                 ExpectKey(s, Expect(s, id.pos, <<",">>), K_description))} })

parse_task(s, i) ==
    Only({ IF id.pos = 0 THEN Fail ELSE parse_task_description(s, id)
           : id \in {parse_usize(s, ExpectKey(s, Expect(s, i, <<"{">>), K_id))} })

RECURSIVE parse_elems(_, _, _)
parse_elems(s, i, acc) ==
    Only({ IF t.pos = 0 THEN Fail
           ELSE Only({ IF comma # 0 THEN parse_elems(s, comma, Append(acc, t.val))
                       ELSE Only({ IF close # 0
                                   THEN [pos |-> close, val |-> Append(acc, t.val)]
                                   ELSE Fail
                                   : close \in {Expect(s, t.pos, <<"]">>)} })
                       : comma \in {Expect(s, t.pos, <<",">>)} })
           : t \in {parse_task(s, i)} })

parse_tasks(s, i) ==
    Only({ IF open = 0 THEN Fail
           ELSE Only({ IF close # 0 THEN [pos |-> close, val |-> <<>>]
                       ELSE parse_elems(s, open, <<>>)
                       : close \in {Expect(s, open, <<"]">>)} })
           : open \in {Expect(s, i, <<"[">>)} })

\* the whole text must be one TodoList object; anything after it is an error
from_str_next_id(s, tasks) ==
    Only({ IF next_id.pos = 0 THEN Fail
           ELSE Only({ IF end = 0 \/ SkipWs(s, end) # Len(s) + 1 THEN Fail
                       ELSE [pos |-> end,
                             val |-> [tasks |-> tasks.val, next_id |-> next_id.val]]
                       : end \in {Expect(s, next_id.pos, <<"}">>)} })
           : next_id \in {parse_usize(s,
                 ExpectKey(s, Expect(s, tasks.pos, <<",">>), K_next_id))} })

from_str(s) ==
    Only({ IF tasks.pos = 0 THEN Fail ELSE from_str_next_id(s, tasks)
           : tasks \in {parse_tasks(s,
                 ExpectKey(s, Expect(s, 1, <<"{">>), K_tasks))} })

Ok(v) == [ok |-> TRUE, val |-> v]
Err(e) == [ok |-> FALSE, err |-> e]

\* fs::write of the pretty-printed store: the file is replaced as a whole
save(self) == [exists |-> TRUE, contents |-> to_string_pretty(self)]

load_missing_is_error(f) ==
    IF ~f.exists THEN Err("NotFound")
    ELSE Only({ IF parsed.pos = 0 THEN Err("InvalidData") ELSE Ok(parsed.val)
                : parsed \in {from_str(f.contents)} })

load(f) ==
    IF ~f.exists THEN Ok(TodoList_new)
    ELSE Only({ IF parsed.pos = 0 THEN Err("InvalidData") ELSE Ok(parsed.val)
                : parsed \in {from_str(f.contents)} })

----------------------------------------------------------------------------
(* SpecStore: a fresh store and any sequence of its methods *)

\* again: the previous call was the same method on the same id and found it
NoCall == [op |-> "none", id |-> 0, description |-> <<>>,
           ret_usize |-> 0, ret_bool |-> FALSE, again |-> FALSE]

Procs == {1, 2}
\* sequential invocations: one process slot is used, again and again
SeqProcs == {1}

NoCmd == [op |-> "none", id |-> 0, description |-> <<>>,
          todo |-> FALSE, done |-> FALSE]
NoIo == [loads |-> 0, ops |-> 0, saves |-> 0, save_err |-> FALSE]
\* disk.kind: "absent", "store" (self written whole) or "partial" (a write of
\* self that failed part-way); disk.by: the writing process, 0 for none
NoDisk == [kind |-> "absent", self |-> TodoList_new, by |-> 0]
NoResult == [usize |-> 0, bool |-> FALSE]
NoFile == [exists |-> FALSE, contents |-> <<>>]
NoLoad == [ok |-> FALSE, err |-> "none"]

CliIdle ==
    /\ pc = [p \in Procs |-> "idle"]
    /\ cmd = [p \in Procs |-> NoCmd]
    /\ todo_list = [p \in Procs |-> TodoList_new]
    /\ result = [p \in Procs |-> NoResult]
    /\ exit_code = [p \in Procs |-> 0]
    /\ io = [p \in Procs |-> NoIo]
    /\ reported = {}
    /\ loaded = [p \in Procs |-> NoLoad]
    /\ race = {}

InitStore ==
    /\ store = TodoList_new
    /\ call = NoCall
    /\ assigned = <<>>
    /\ shown = <<>>
    /\ reloaded = NoLoad
    /\ file = NoFile
    /\ disk = NoDisk
    /\ CliIdle

AddTask(d) ==
    /\ store.next_id <= MaxAdds
    /\ LET r == add_task(store, d)
       IN /\ store' = r.self
          /\ call' = [NoCall EXCEPT !.op = "add_task", !.description = d,
                                    !.ret_usize = r.ret]
          /\ assigned' = Append(assigned, r.ret)
    /\ shown' = <<>>
    /\ UNCHANGED <<reloaded, file, cliVars>>

MarkDone(id) ==
    /\ LET r == mark_done(store, id)
       IN /\ store' = r.self
          /\ call' = [NoCall EXCEPT !.op = "mark_done", !.id = id,
                                    !.ret_bool = r.ret,
                                    !.again = (call.op = "mark_done" /\ call.id = id
                                               /\ call.ret_bool)]
    /\ shown' = <<>>
    /\ UNCHANGED <<assigned, reloaded, file, cliVars>>

MarkTodo(id) ==
    /\ LET r == mark_todo(store, id)
       IN /\ store' = r.self
          /\ call' = [NoCall EXCEPT !.op = "mark_todo", !.id = id,
                                    !.ret_bool = r.ret,
                                    !.again = (call.op = "mark_todo" /\ call.id = id
                                               /\ call.ret_bool)]
    /\ shown' = <<>>
    /\ UNCHANGED <<assigned, reloaded, file, cliVars>>

RemoveTask(id) ==
    /\ LET r == remove_task(store, id)
       IN /\ store' = r.self
          /\ call' = [NoCall EXCEPT !.op = "remove_task", !.id = id,
                                    !.ret_bool = r.ret]
    /\ shown' = <<>>
    /\ UNCHANGED <<assigned, reloaded, file, cliVars>>

ClearDone ==
    /\ LET r == clear_done(store)
       IN /\ store' = r.self
          /\ call' = [NoCall EXCEPT !.op = "clear_done", !.ret_usize = r.ret]
    /\ shown' = <<>>
    /\ UNCHANGED <<assigned, reloaded, file, cliVars>>

ListAll ==
    /\ shown' = list_all(store)
    /\ call' = [NoCall EXCEPT !.op = "list_all"]
    /\ UNCHANGED <<store, assigned, reloaded, file, cliVars>>

ListTodo ==
    /\ shown' = list_todo(store)
    /\ call' = [NoCall EXCEPT !.op = "list_todo"]
    /\ UNCHANGED <<store, assigned, reloaded, file, cliVars>>

ListDone ==
    /\ shown' = list_done(store)
    /\ call' = [NoCall EXCEPT !.op = "list_done"]
    /\ UNCHANGED <<store, assigned, reloaded, file, cliVars>>

NextStore ==
    \/ \E d \in Descriptions : AddTask(d)
    \/ \E id \in Ids : MarkDone(id)
    \/ \E id \in Ids : MarkTodo(id)
    \/ \E id \in Ids : RemoveTask(id)
    \/ ClearDone
    \/ ListAll
    \/ ListTodo
    \/ ListDone

SpecStore == InitStore /\ [][NextStore]_vars

----------------------------------------------------------------------------
(* SpecRoundTrip: save an arbitrary store, then load what was saved *)

RT_Tasks == [id : RT_Ids, description : RT_Descriptions, status : {"Todo", "Done"}]

RT_TaskSeqs == UNION {[1 .. n -> RT_Tasks] : n \in 0 .. RT_MaxLen}

RT_Stores == [tasks : RT_TaskSeqs, next_id : RT_NextIds]

InitRoundTrip ==
    /\ store \in RT_Stores
    /\ call = NoCall
    /\ assigned = <<>>
    /\ shown = <<>>
    /\ reloaded = NoLoad
    /\ file = NoFile
    /\ disk = NoDisk
    /\ CliIdle

RT_Save ==
    /\ call.op = "none"
    /\ file' = save(store)
    /\ call' = [NoCall EXCEPT !.op = "save"]
    /\ UNCHANGED <<store, assigned, shown, reloaded, cliVars>>

RT_Load ==
    /\ call.op = "save"
    /\ reloaded' = load(file)
    /\ call' = [NoCall EXCEPT !.op = "load"]
    /\ UNCHANGED <<store, assigned, shown, file, cliVars>>

NextRoundTrip ==
    \/ RT_Save
    \/ RT_Load

SpecRoundTrip == InitRoundTrip /\ [][NextRoundTrip]_vars

----------------------------------------------------------------------------
(* SpecCli: invocations of main, one after the other, sharing tasks.json.  *)
(* main is cut at its two file accesses: Start parses the command and      *)
(* loads, Exec runs the match arm up to its save, SaveOk / SaveFail are    *)
(* the outcomes of save, Exit ends the process.                            *)

Commands ==
    {[NoCmd EXCEPT !.op = "add", !.description = d] : d \in CliDescriptions}
    \cup {[NoCmd EXCEPT !.op = "list", !.todo = t, !.done = d] :
             t \in BOOLEAN, d \in BOOLEAN}
    \cup {[NoCmd EXCEPT !.op = o, !.id = id] :
             o \in {"done", "undone", "remove"}, id \in CliIds}
    \cup {[NoCmd EXCEPT !.op = "clear"]}

\* TodoList::load().unwrap_or_else(|_| TodoList::new())
load_or_default(f) ==
    Only({ IF r.ok THEN r.val ELSE [tasks |-> <<>>, next_id |-> 0]
           : r \in {load(f)} })

load_or_new(f) ==
    Only({ IF r.ok THEN r.val ELSE TodoList_new : r \in {load(f)} })

\* the match arm of main up to its save: the store after the call, what the
\* call returned, and whether the arm goes on to todo_list.save()
needs_save_not_remove(c, found) ==
    c.op \in {"add", "clear"} \/ (c.op \in {"done", "undone"} /\ found)

needs_save_always(c, found) == TRUE

needs_save(c, found) ==
    c.op \in {"add", "clear"} \/ (c.op \in {"done", "undone", "remove"} /\ found)

run_command(c, self) ==
    IF c.op = "add" THEN
        LET r == add_task(self, c.description)
        IN [self |-> r.self, usize |-> r.ret, bool |-> FALSE]
    ELSE IF c.op = "done" THEN
        LET r == mark_done(self, c.id)
        IN [self |-> r.self, usize |-> 0, bool |-> r.ret]
    ELSE IF c.op = "undone" THEN
        LET r == mark_todo(self, c.id)
        IN [self |-> r.self, usize |-> 0, bool |-> r.ret]
    ELSE IF c.op = "remove" THEN
        LET r == remove_task(self, c.id)
        IN [self |-> r.self, usize |-> 0, bool |-> r.ret]
    ELSE IF c.op = "clear" THEN
        LET r == clear_done(self)
        IN [self |-> r.self, usize |-> r.ret, bool |-> FALSE]
    ELSE [self |-> self, usize |-> 0, bool |-> FALSE]

\* fs::write creates or truncates the file, then writes the text: when the
\* write fails part-way the file is left holding a strict prefix of it
TruncPoints(text) == {0, Len(text) - 1}

partial_write(self) ==
    UNION { {[exists |-> TRUE, contents |-> SubSeq(text, 1, n)] :
                n \in TruncPoints(text)}
            : text \in {to_string_pretty(self)} }

InitCli ==
    /\ store = TodoList_new
    /\ call = NoCall
    /\ assigned = <<>>
    /\ shown = <<>>
    /\ reloaded = NoLoad
    /\ file = NoFile
    /\ disk = NoDisk
    /\ CliIdle

\* the processes that are between their load and their save
InFlight == {q \in Procs : pc[q] \in {"loaded", "save"}}

Start(p, c) ==
    /\ pc[p] = "idle"
    /\ loaded' = [loaded EXCEPT ![p] = load(file)]
    /\ todo_list' = [todo_list EXCEPT ![p] = load_or_new(file)]
    /\ c.op = "add" => todo_list'[p].next_id <= MaxAdds
    /\ cmd' = [cmd EXCEPT ![p] = c]
    /\ io' = [io EXCEPT ![p].loads = @ + 1]
    /\ pc' = [pc EXCEPT ![p] = "loaded"]
    /\ race' = IF InFlight = {} THEN race ELSE race \cup InFlight \cup {p}
    /\ UNCHANGED <<storeVars, reloaded, file, result, exit_code, reported, disk>>

Exec_reload(p) ==
    /\ pc[p] = "loaded"
    /\ LET r == run_command(cmd[p], load_or_new(file))
       IN /\ todo_list' = [todo_list EXCEPT ![p] = r.self]
          /\ result' = [result EXCEPT ![p] = [usize |-> r.usize, bool |-> r.bool]]
          /\ pc' = [pc EXCEPT ![p] =
                      IF needs_save(cmd[p], r.bool) THEN "save" ELSE "exit"]
    /\ io' = [io EXCEPT ![p].ops = @ + 1]
    /\ UNCHANGED <<storeVars, reloaded, file, cmd, exit_code, reported, loaded,
                   disk, race>>

Exec(p) ==
    /\ pc[p] = "loaded"
    /\ LET r == run_command(cmd[p], todo_list[p])
       IN /\ todo_list' = [todo_list EXCEPT ![p] = r.self]
          /\ result' = [result EXCEPT ![p] = [usize |-> r.usize, bool |-> r.bool]]
          /\ pc' = [pc EXCEPT ![p] =
                      IF needs_save(cmd[p], r.bool) THEN "save" ELSE "exit"]
    /\ io' = [io EXCEPT ![p].ops = @ + 1]
    /\ UNCHANGED <<storeVars, reloaded, file, cmd, exit_code, reported, loaded,
                   disk, race>>

SaveOk_again(p) ==
    /\ pc[p] = "save"
    /\ file' = save(todo_list[p])
    /\ io' = [io EXCEPT ![p].saves = @ + 1]
    /\ disk' = [kind |-> "store", self |-> todo_list[p], by |-> p]
    /\ UNCHANGED <<storeVars, reloaded, pc, cmd, todo_list, result, exit_code,
                   reported, loaded, race>>

SaveOk(p) ==
    /\ pc[p] = "save"
    /\ file' = save(todo_list[p])
    /\ io' = [io EXCEPT ![p].saves = @ + 1]
    /\ reported' = IF cmd[p].op = "add" THEN reported \cup {result[p].usize}
                   ELSE reported
    /\ pc' = [pc EXCEPT ![p] = "exit"]
    /\ disk' = [kind |-> "store", self |-> todo_list[p], by |-> p]
    /\ UNCHANGED <<storeVars, reloaded, cmd, todo_list, result, exit_code,
                   loaded, race>>

SaveFail_ignored(p) ==
    /\ pc[p] = "save"
    /\ file' = file /\ disk' = disk
    /\ io' = [io EXCEPT ![p].saves = @ + 1, ![p].save_err = TRUE]
    /\ pc' = [pc EXCEPT ![p] = "exit"]
    /\ UNCHANGED <<storeVars, reloaded, cmd, todo_list, result, exit_code,
                   reported, loaded, race>>

\* save()? returns the error from main: the file could not be created
\* (left as it was) or was written part-way
SaveFail(p) ==
    /\ pc[p] = "save"
    /\ \/ file' = file /\ disk' = disk
       \/ /\ file' \in partial_write(todo_list[p])
          /\ disk' = [kind |-> "partial", self |-> todo_list[p], by |-> p]
    /\ io' = [io EXCEPT ![p].saves = @ + 1, ![p].save_err = TRUE]
    /\ exit_code' = [exit_code EXCEPT ![p] = 1]
    /\ pc' = [pc EXCEPT ![p] = "exit"]
    /\ UNCHANGED <<storeVars, reloaded, cmd, todo_list, result, reported,
                   loaded, race>>

\* the process ends; nothing of it remains but the file
Exit(p) ==
    /\ pc[p] = "exit"
    /\ pc' = [pc EXCEPT ![p] = "idle"]
    /\ cmd' = [cmd EXCEPT ![p] = NoCmd]
    /\ todo_list' = [todo_list EXCEPT ![p] = TodoList_new]
    /\ result' = [result EXCEPT ![p] = NoResult]
    /\ exit_code' = [exit_code EXCEPT ![p] = 0]
    /\ io' = [io EXCEPT ![p] = NoIo]
    /\ loaded' = [loaded EXCEPT ![p] = NoLoad]
    /\ race' = race \ {p}
    /\ UNCHANGED <<storeVars, reloaded, file, reported, disk>>

NextCli ==
    \/ \E p \in SeqProcs, c \in Commands : Start(p, c)
    \/ \E p \in SeqProcs : Exec(p)
    \/ \E p \in SeqProcs : SaveOk(p)
    \/ \E p \in SeqProcs : SaveFail(p)
    \/ \E p \in SeqProcs : Exit(p)

SpecCli == InitCli /\ [][NextCli]_vars

\* main is straight-line code: a process that has started takes its next
\* step (the command, the outcome of save, the return) sooner or later
FairCli ==
    \A p \in SeqProcs :
        /\ WF_vars(Exec(p))
        /\ WF_vars(SaveOk(p) \/ SaveFail(p))
        /\ WF_vars(Exit(p))

SpecCliFair == SpecCli /\ FairCli

----------------------------------------------------------------------------
(* SpecConc: two processes run main once each against the same tasks.json   *)
(* with no lock.  Their steps interleave freely; each save replaces the    *)
(* whole file in one step and succeeds.  At the start the file is absent   *)
(* or holds a store that earlier invocations can have left: ids increasing *)
(* in insertion order and below next_id.                                   *)

ConcCommands ==
    {[NoCmd EXCEPT !.op = "add", !.description = d] : d \in CliDescriptions}
    \cup {[NoCmd EXCEPT !.op = o, !.id = 1] : o \in {"done", "undone", "remove"}}
    \cup {[NoCmd EXCEPT !.op = "clear"], [NoCmd EXCEPT !.op = "list"]}

ConcTasks ==
    [id : 1 .. ConcMaxAdds, description : {<<"a">>}, status : {"Todo", "Done"}]

ConcInitStores ==
    { s \in [tasks : UNION {[1 .. n -> ConcTasks] : n \in 0 .. ConcMaxAdds},
             next_id : 1 .. ConcMaxAdds + 1] :
        /\ \A i \in DOMAIN s.tasks : s.tasks[i].id < s.next_id
        /\ \A i, j \in DOMAIN s.tasks : i < j => s.tasks[i].id < s.tasks[j].id }

InitConc ==
    /\ store = TodoList_new
    /\ call = NoCall
    /\ assigned = <<>>
    /\ shown = <<>>
    /\ reloaded = NoLoad
    /\ \/ file = NoFile /\ disk = NoDisk
       \/ \E s0 \in ConcInitStores :
             /\ file = save(s0)
             /\ disk = [kind |-> "store", self |-> s0, by |-> 0]
    /\ CliIdle

ConcStart(p, c) ==
    /\ Start(p, c)
    /\ c.op = "add" => todo_list'[p].next_id <= ConcMaxAdds

NextConc ==
    \/ \E p \in Procs, c \in ConcCommands : ConcStart(p, c)
    \/ \E p \in Procs : Exec(p)
    \/ \E p \in Procs : SaveOk(p)

SpecConc == InitConc /\ [][NextConc]_vars

----------------------------------------------------------------------------
(* Helpers of the properties *)

Range(s) == {s[i] : i \in DOMAIN s}

IdsOf(tasks) == {tasks[i].id : i \in DOMAIN tasks}

Present(self, id) == \E i \in DOMAIN self.tasks : self.tasks[i].id = id

CountStatus(tasks, status) ==
    Cardinality({i \in DOMAIN tasks : tasks[i].status = status})

\* a is obtained from b by deleting elements (relative order kept)
RECURSIVE IsSubseq(_, _)
IsSubseq(a, b) ==
    IF a = <<>> THEN TRUE
    ELSE IF b = <<>> THEN FALSE
    ELSE IF Head(a) = Head(b) THEN IsSubseq(Tail(a), Tail(b))
    ELSE IsSubseq(a, Tail(b))

----------------------------------------------------------------------------
(* Properties of the store, checked under SpecStore *)

\* C1: from a fresh store the k-th add_task returns k, whatever removals and
\* clears are interleaved, and next_id is one more than the number of adds.
C1_IdMonotonicity ==
    /\ \A k \in DOMAIN assigned : assigned[k] = k
    /\ store.next_id = Len(assigned) + 1

C1_Witness ==
    /\ call.op = "add_task"
    /\ Len(assigned) >= 2
    /\ Len(store.tasks) < Len(assigned)

\* C2: the ids of the tasks in the store are pairwise distinct.
C2_DistinctIds ==
    \A i, j \in DOMAIN store.tasks :
        i # j => store.tasks[i].id # store.tasks[j].id

C2_Witness ==
    /\ Len(store.tasks) >= 2
    /\ Len(assigned) > Len(store.tasks)

\* C3: an id returned by add_task differs from (and is larger than) every id
\* returned by an earlier add_task, also when that task was removed since.
C3_NoIdReuse ==
    \A i, j \in DOMAIN assigned : i < j => assigned[i] < assigned[j]

\* the task that held the largest id is gone, and add_task was called after
C3_Witness ==
    /\ call.op = "add_task"
    /\ Len(assigned) >= 2
    /\ ~Present(store, assigned[Len(assigned) - 1])
    /\ Present(store, call.ret_usize)

\* C6: mark_done, mark_todo and remove_task return true exactly when the id
\* is in the store, and on a miss they leave the store unchanged.
C6_LookupMiss ==
    [][ call'.op \in {"mark_done", "mark_todo", "remove_task"} =>
          /\ call'.ret_bool <=> Present(store, call'.id)
          /\ ~call'.ret_bool => store' = store ]_vars

C6_Witness ==
    /\ call.op \in {"mark_done", "mark_todo", "remove_task"}
    /\ ~call.ret_bool
    /\ Len(store.tasks) >= 2
    /\ CountStatus(store.tasks, "Done") >= 1

\* C7: clear_done returns the number of Done tasks, leaves no Done task,
\* keeps exactly the Todo tasks in their order, and keeps next_id.
C7_ClearDone ==
    [][ call'.op = "clear_done" =>
          /\ call'.ret_usize = CountStatus(store.tasks, "Done")
          /\ CountStatus(store'.tasks, "Done") = 0
          /\ IsSubseq(store'.tasks, store.tasks)
          /\ Len(store'.tasks) = CountStatus(store.tasks, "Todo")
          /\ store'.next_id = store.next_id ]_vars

C7_Witness ==
    /\ call.op = "clear_done"
    /\ call.ret_usize >= 1
    /\ Len(store.tasks) >= 1

\* C8: list_todo and list_done select disjoint tasks, together those of
\* list_all, each in the relative order of the store's sequence.
C8_FilterCompleteness ==
    LET todos == list_todo(store)
        done == list_done(store)
        all == list_all(store)
    IN /\ Range(todos) \cap Range(done) = {}
       /\ Range(todos) \cup Range(done) = Range(all)
       /\ Len(todos) + Len(done) = Len(all)
       /\ IsSubseq(todos, store.tasks)
       /\ IsSubseq(done, store.tasks)
       /\ IsSubseq(all, store.tasks) /\ Len(all) = Len(store.tasks)

C8_Witness ==
    /\ call.op = "list_done"
    /\ Len(shown) >= 1
    /\ Len(list_todo(store)) >= 1

\* C9: mark_done (mark_todo) on a present id returns true whatever the
\* status, and a second call in a row leaves the store as the first left it.
C9_Idempotent ==
    [][ \A op \in {"mark_done", "mark_todo"} :
          (call'.op = op /\ Present(store, call'.id)) =>
             /\ call'.ret_bool
             /\ call'.again => store' = store ]_vars

C9_Witness ==
    /\ call.op \in {"mark_done", "mark_todo"}
    /\ call.again
    /\ call.ret_bool

----------------------------------------------------------------------------
(* Properties of persistence, checked under SpecRoundTrip *)

\* C5: saving a store and loading the persisted state yields an equal store:
\* the same tasks (id, description, status) in the same order, same next_id.
C5_RoundTrip ==
    call.op = "load" => (reloaded.ok /\ reloaded.val = store)

\* a reloaded store whose text needed escaping and a several-digit number
C5_Witness ==
    /\ call.op = "load"
    /\ reloaded.ok
    /\ Len(reloaded.val.tasks) = RT_MaxLen
    /\ \E i \in DOMAIN reloaded.val.tasks :
          /\ DQ \in Range(reloaded.val.tasks[i].description)
          /\ reloaded.val.tasks[i].id >= 10

----------------------------------------------------------------------------
(* Properties of main, checked under SpecCli *)

\* the command in process p changed its in-memory store
Mutating(p) ==
    \/ cmd[p].op \in {"add", "clear"}
    \/ cmd[p].op \in {"done", "undone", "remove"} /\ result[p].bool

\* C4: across sequential invocations sharing the file, next_id of the store
\* exceeds every id in the store and every id an earlier add assigned.
\* (Violated: once tasks.json does not parse, load_or_new starts again from
\* TodoList_new, whose next_id is 1, whatever ids were reported before.)
C4_NextIdAboveAll ==
    \A p \in Procs :
        pc[p] \in {"loaded", "save", "exit"} =>
            \A id \in IdsOf(todo_list[p].tasks) \cup reported :
                todo_list[p].next_id > id

\* C10: a command that changed the store calls save before the process
\* ends, and when it exits successfully the file holds the in-memory store.
C10_PersistAfterMutation ==
    \A p \in Procs :
        (pc[p] = "exit" /\ Mutating(p)) =>
            /\ io[p].saves = 1
            /\ exit_code[p] = 0 =>
                  /\ file.exists
                  /\ load(file).ok
                  /\ load(file).val = todo_list[p]

C10_Witness ==
    \E p \in Procs :
        /\ pc[p] = "exit"
        /\ exit_code[p] = 0
        /\ cmd[p].op = "remove"
        /\ result[p].bool
        /\ Len(todo_list[p].tasks) >= 1
        /\ load(file).ok

\* C11: load returns an empty store with next_id 1 when there is no file,
\* an InvalidData error when the file does not parse, and the stored store
\* when it does; in each case main goes on.
C11_LoadOutcomes ==
    \A p \in Procs :
        pc[p] = "loaded" =>
            /\ (disk.kind = "absent") <=> ~file.exists
            /\ disk.kind = "absent" =>
                  (loaded[p].ok /\ loaded[p].val = TodoList_new)
            /\ disk.kind = "partial" =>
                  (~loaded[p].ok /\ loaded[p].err = "InvalidData")
            /\ disk.kind = "store" =>
                  (loaded[p].ok /\ loaded[p].val = disk.self)

\* a load of a file that a failed write left cut short
C11_Witness ==
    \E p \in Procs :
        /\ pc[p] = "loaded"
        /\ disk.kind = "partial"
        /\ Len(file.contents) > 0
        /\ ~loaded[p].ok

\* C12: when load fails main goes on with an empty store; the unparsable
\* file is left as it is until a command saves, and that save replaces it
\* with the store the command built from the empty store.
C12_LoadFailureRecovery ==
    [][ \A p \in Procs :
          /\ (pc[p] = "idle" /\ pc'[p] = "loaded" /\ ~loaded'[p].ok) =>
                /\ todo_list'[p] = TodoList_new
                /\ exit_code'[p] = 0
                /\ file' = file
          /\ (pc[p] = "loaded" /\ ~loaded[p].ok) =>
                /\ file' = file
                /\ todo_list'[p] = run_command(cmd[p], TodoList_new).self
          /\ (pc[p] = "save" /\ ~loaded[p].ok /\ exit_code'[p] = 0) =>
                file' = save(run_command(cmd[p], TodoList_new).self) ]_vars

C12_Witness ==
    \E p \in Procs :
        /\ pc[p] = "exit"
        /\ ~loaded[p].ok
        /\ exit_code[p] = 0
        /\ io[p].saves = 1
        /\ load(file).ok
        /\ Len(load(file).val.tasks) = 1
        /\ reported # {}

\* the command of process p does not change the store: list, or a
\* done / undone / remove whose id was not found
ReadOnly(p) ==
    \/ cmd[p].op = "list"
    \/ cmd[p].op \in {"done", "undone", "remove"} /\ ~result[p].bool

\* C13: an invocation ends with a failure exactly when its save failed; list,
\* a done / undone / remove on an absent id, and a load failure end with 0.
C13_ExitBehaviour ==
    \A p \in Procs :
        pc[p] = "exit" =>
            /\ (exit_code[p] # 0) <=> io[p].save_err
            /\ io[p].save_err => io[p].saves = 1
            /\ ReadOnly(p) => (exit_code[p] = 0 /\ io[p].saves = 0)
            /\ (~loaded[p].ok /\ ~io[p].save_err) => exit_code[p] = 0

\* a load failure followed by a lookup miss, ending with exit code 0
C13_Witness ==
    \E p \in Procs :
        /\ pc[p] = "exit"
        /\ exit_code[p] = 0
        /\ ~loaded[p].ok
        /\ cmd[p].op \in {"done", "undone", "remove"}
        /\ ~result[p].bool

----------------------------------------------------------------------------
(* Properties of concurrent invocations, checked under SpecConc *)

\* next_id is above every id of the store and the ids are pairwise distinct
WellFormed(self) ==
    /\ \A i, j \in DOMAIN self.tasks :
          i # j => self.tasks[i].id # self.tasks[j].id
    /\ \A i \in DOMAIN self.tasks : self.tasks[i].id < self.next_id

\* p and q were between load and save together, both saved and returned
\* Ok, and q wrote last
BothDoneAfterRace(p, q) ==
    /\ p # q
    /\ pc[p] = "exit" /\ pc[q] = "exit"
    /\ exit_code[p] = 0 /\ exit_code[q] = 0
    /\ io[p].saves = 1 /\ io[q].saves = 1
    /\ {p, q} \subseteq race
    /\ loaded[p].ok /\ loaded[q].ok /\ loaded[p].val = loaded[q].val
    /\ disk.by = q

\* C14: when two processes both load before either saves and both finish
\* successfully, the file holds the later writer's store only: it is what
\* the later writer's command alone makes of the store both loaded, and the
\* other process's update is not in it.
C14_LostUpdate ==
    \A p, q \in Procs :
        BothDoneAfterRace(p, q) =>
            /\ load(file).ok
            /\ load(file).val = todo_list[q]
            /\ load(file).val = run_command(cmd[q], loaded[p].val).self
            /\ (cmd[p].op = "add" /\ cmd[q].op # "add") =>
                  ~Present(load(file).val, result[p].usize)

\* both added, with different descriptions and the same id; one task is left
C14_Witness ==
    \E p, q \in Procs :
        /\ BothDoneAfterRace(p, q)
        /\ cmd[p].op = "add" /\ cmd[q].op = "add"
        /\ cmd[p].description # cmd[q].description
        /\ result[p].usize = result[q].usize
        /\ Len(load(file).val.tasks) = Len(loaded[p].val.tasks) + 1
        /\ \A i \in DOMAIN load(file).val.tasks :
              load(file).val.tasks[i].id = result[p].usize =>
                 load(file).val.tasks[i].description = cmd[q].description

\* C20: with saves that replace the whole file at once and a file that is
\* absent or well-formed at the start, every persisted state is a
\* well-formed store, under any interleaving of the processes.
C20_PersistedWellFormed ==
    file.exists => (load(file).ok /\ WellFormed(load(file).val))

C20_Witness ==
    /\ file.exists
    /\ race = Procs
    /\ disk.by # 0
    /\ load(file).ok
    /\ Len(load(file).val.tasks) >= 2

----------------------------------------------------------------------------
(* Frame properties of the store methods, checked under SpecStore *)

StatusOf(self, id) == self.tasks[position(self.tasks, id)].status

\* C15: mark_done / mark_todo on a present id change the status of that task
\* and nothing else; mark_todo after mark_done on a Todo task restores the
\* store.
C15_StatusFrame ==
    [][ /\ \A op \in {"mark_done", "mark_todo"} :
              (call'.op = op /\ Present(store, call'.id)) =>
                 /\ Len(store'.tasks) = Len(store.tasks)
                 /\ store'.next_id = store.next_id
                 /\ \A i \in DOMAIN store.tasks :
                       /\ store'.tasks[i].id = store.tasks[i].id
                       /\ store'.tasks[i].description = store.tasks[i].description
                       /\ store'.tasks[i].status =
                             IF store.tasks[i].id # call'.id
                             THEN store.tasks[i].status
                             ELSE IF op = "mark_done" THEN "Done" ELSE "Todo"
        /\ \A id \in Ids :
              (Present(store, id) /\ StatusOf(store, id) = "Todo") =>
                 mark_todo(mark_done(store, id).self, id).self = store ]_vars

C15_Witness ==
    /\ call.op = "mark_todo"
    /\ call.ret_bool
    /\ Len(store.tasks) >= 2
    /\ \E i \in DOMAIN store.tasks :
          store.tasks[i].id # call.id /\ store.tasks[i].status = "Done"

\* C16: remove_task on a present id deletes the one task with that id; the
\* others keep their fields and order, and next_id is unchanged.
C16_RemoveFrame ==
    [][ (call'.op = "remove_task" /\ Present(store, call'.id)) =>
          /\ call'.ret_bool
          /\ store'.next_id = store.next_id
          /\ \E k \in DOMAIN store.tasks :
                /\ store.tasks[k].id = call'.id
                /\ store'.tasks = SubSeq(store.tasks, 1, k - 1)
                                  \o SubSeq(store.tasks, k + 1, Len(store.tasks)) ]_vars

\* the first of at least three tasks was removed
C16_Witness ==
    /\ call.op = "remove_task"
    /\ call.ret_bool
    /\ Len(store.tasks) >= 2
    /\ call.id < store.tasks[1].id

\* C17: add_task appends one task with id = the previous next_id, the given
\* description and status Todo; the earlier tasks are a prefix of the new
\* sequence, and next_id grows by one.
C17_AddTask ==
    [][ call'.op = "add_task" =>
          /\ call'.ret_usize = store.next_id
          /\ store'.next_id = store.next_id + 1
          /\ Len(store'.tasks) = Len(store.tasks) + 1
          /\ SubSeq(store'.tasks, 1, Len(store.tasks)) = store.tasks
          /\ store'.tasks[Len(store'.tasks)] =
                [id |-> store.next_id, description |-> call'.description,
                 status |-> "Todo"] ]_vars

\* an empty description added after two other tasks
C17_Witness ==
    /\ call.op = "add_task"
    /\ call.description = <<>>
    /\ Len(store.tasks) >= 3
    /\ store.tasks[1].status = "Done"

----------------------------------------------------------------------------
(* Properties of one invocation, checked under SpecCli and SpecCliFair *)

\* the calls made so far by process p fit its position in main
OneEach(p) ==
    /\ io[p].loads <= 1 /\ io[p].ops <= 1 /\ io[p].saves <= 1
    /\ pc[p] = "idle" => (io[p].loads = 0 /\ io[p].ops = 0 /\ io[p].saves = 0)
    /\ pc[p] = "loaded" => (io[p].loads = 1 /\ io[p].ops = 0 /\ io[p].saves = 0)
    /\ pc[p] = "save" => (io[p].loads = 1 /\ io[p].ops = 1 /\ io[p].saves = 0)
    /\ pc[p] = "exit" => (io[p].loads = 1 /\ io[p].ops = 1)

\* C18: an invocation loads at most once, then calls at most one store
\* method, then saves at most once, and then terminates.
C18_OneLoadOpSave ==
    /\ [](\A p \in Procs : OneEach(p))
    /\ \A p \in Procs : (pc[p] # "idle") ~> (pc[p] = "idle")

C18_Witness ==
    \E p \in Procs :
        /\ pc[p] = "exit"
        /\ io[p].loads = 1 /\ io[p].ops = 1 /\ io[p].saves = 1

\* C19: list, and done / undone / remove on an absent id, never write the
\* file; add and clear always go through save, which writes the store.
C19_PersistedFrame ==
    [][ /\ file' # file => \E p \in Procs : pc[p] = "save" /\ ~ReadOnly(p)
        /\ \A p \in Procs :
              (pc[p] # "exit" /\ pc'[p] = "exit") =>
                 /\ ReadOnly(p)' => (io'[p].saves = 0 /\ file' = file)
                 /\ cmd[p].op \in {"add", "clear"} =>
                       /\ io'[p].saves = 1
                       /\ exit_code'[p] = 0 => file' = save(todo_list[p]) ]_vars

\* list run on the store of the load-failure fallback: the file is as it was
C19_Witness ==
    \E p \in Procs :
        /\ pc[p] = "exit"
        /\ cmd[p].op = "list"
        /\ ~loaded[p].ok
        /\ file.exists
        /\ ~load(file).ok

====
